---- MODULE Spec2Model ----
(***************************************************************************)
(* Model of scripts/refresh_plugins.py: the marketplace refresh run        *)
(* (cmd_refresh), the field reconciler (merge_plugin), the validators and  *)
(* the version bumper.                                                     *)
(*                                                                         *)
(* JSON values.  A JSON string is a sequence of tokens (<<"dev">>, or      *)
(* <<"1", ".", "2", ".", "3">> for text that the program parses).  A JSON  *)
(* value is a record [kind, s, o]: kind "str" with text s, kind "obj" with *)
(* the ordered member list o (a Python dict keeps insertion order), or one *)
(* of the kinds "num", "bool", "list", "null" whose content s is opaque.   *)
(* A member is a record [k, v].  Members of a plugin entry carry JSON      *)
(* values; members of a nested object (source, author, metadata) carry     *)
(* JSON strings.                                                           *)
(***************************************************************************)
EXTENDS Integers, Sequences, FiniteSets, TLC

VARIABLES
    hashSeed,      \* string-hash seed of the process: decides frozenset iteration order
    disk,          \* MARKETPLACE_PATH: [exists, doc, fmt]
    pc,            \* position of cmd_refresh
    marketplace,   \* the in-memory registry document
    original,      \* json.dumps snapshot taken before the loop
    idx,           \* loop index i (0-based) of the next entry to handle
    had_errors,    \* had_errors flag of cmd_refresh
    exitCode,      \* -1 while running, else the exit status of the process
    preErrors,     \* result of the up-front validate_marketplace
    postErrors,    \* result of the validate_marketplace before writing
    log,           \* per-entry record of what the loop did
    disk0,         \* the file as it was when the run started
    outcome,       \* how the run ended
    runs,          \* number of refresh runs started so far
    upstream,      \* when not empty: the response the fetch port gives per list position
    hInput,        \* function harness: the argument
    hOutput,       \* function harness: what the call returned
    hDone,         \* function harness: the call has returned
    mEntry,        \* merge harness: entry argument
    mSource,       \* merge harness: source argument
    mResult,       \* merge harness: returned dict
    mDone          \* merge harness: merge_plugin has returned

vars == <<hashSeed, disk, pc, marketplace, original, idx, had_errors, exitCode,
          preErrors, postErrors, log, disk0, outcome, runs, upstream,
          hInput, hOutput, hDone, mEntry, mSource, mResult, mDone>>

refreshVars == <<disk, pc, marketplace, original, idx, had_errors, exitCode,
                 preErrors, postErrors, log, disk0, outcome, runs, upstream>>

mergeVars == <<mEntry, mSource, mResult, mDone>>

harnessVars == <<hInput, hOutput, hDone>>

----
\* Bounds of the model.

\* longest plugins list of a registry on disk
MaxPlugins == 2

\* most keys of an entry or manifest handed to the merge harness
MaxKeys == 3

\* refresh runs in a row
MaxRuns == 2

----
\* JSON values and dict operations.

Str(s) == [kind |-> "str", s |-> s, o |-> <<>>]

Obj(o) == [kind |-> "obj", s |-> <<>>, o |-> o]

Opaque(kind, s) == [kind |-> kind, s |-> s, o |-> <<>>]

\* a missing value: Python None, and the result of dict.get on a missing key
NoneVal == [kind |-> "none", s |-> <<>>, o |-> <<>>]

Member(k, v) == [k |-> k, v |-> v]

Keys(d) == {d[i].k : i \in 1..Len(d)}

Has(d, k) == \E i \in 1..Len(d) : d[i].k = k

Get(d, k) == d[CHOOSE i \in 1..Len(d) : d[i].k = k].v

\* d[k] = v: an existing key keeps its position, a new key goes last
Put(d, k, v) ==
    IF Has(d, k)
    THEN [i \in 1..Len(d) |-> IF d[i].k = k THEN Member(k, v) ELSE d[i]]
    ELSE Append(d, Member(k, v))

\* del d[k]
Del(d, k) == SelectSeq(d, LAMBDA m : m.k # k)

\* the dict as an unordered mapping (Python dict equality ignores order)
AsMap(d) == {<<d[i].k, d[i].v>> : i \in 1..Len(d)}

RECURSIVE Concat(_)
Concat(ss) == IF ss = <<>> THEN <<>> ELSE Head(ss) \o Concat(Tail(ss))

----
\* Program constants.

PROTECTED_FIELDS == {"name", "source"}

MARKETPLACE_ONLY_FIELDS == {"category", "tags", "strict"}

_KEY_ORDER == <<"name", "source", "version", "description", "author", "homepage",
                "repository", "license", "keywords", "category", "tags", "strict">>

\* properties of $defs.pluginEntry in schema/marketplace.schema.json
_documented_plugin_fields ==
    {"name", "source", "version", "description", "author", "homepage",
     "repository", "license", "keywords", "category", "tags", "strict", "settings"}

\* properties of $defs.author in schema/marketplace.schema.json
_documented_author_fields == {"name", "email", "url"}

----
\* Orders on key names.

\* Python's str comparison on the key names that occur in the model
AlphaOrder == <<"author", "bogus", "category", "description", "email", "homepage",
                "keywords", "license", "name", "repository", "settings", "source",
                "strict", "tags", "url", "version">>

IndexIn(seq, x) ==
    IF \E i \in 1..Len(seq) : seq[i] = x
    THEN CHOOSE i \in 1..Len(seq) : seq[i] = x
    ELSE Len(seq) + 1

KeyNames == {AlphaOrder[i] : i \in 1..Len(AlphaOrder)}

\* the place of each key name in the order of Python strings
AlphaRank == [k \in KeyNames |-> IndexIn(AlphaOrder, k)]

StrLess(a, b) == AlphaRank[a] < AlphaRank[b]

\* order.get(k, len(_KEY_ORDER)) of _ordered_dict, for each key name
OrderRank == [k \in KeyNames |-> IndexIn(_KEY_ORDER, k)]

\* the sort key (order.get(k, len(_KEY_ORDER)), k) of _ordered_dict, compared
KeyLess(a, b) ==
    LET ra == OrderRank[a]
        rb == OrderRank[b]
    IN  ra < rb \/ (ra = rb /\ StrLess(a, b))

RECURSIVE SortMembers(_)
SortMembers(d) ==
    IF d = <<>> THEN <<>>
    ELSE LET i == CHOOSE i \in 1..Len(d) :
                      \A j \in 1..Len(d) : j = i \/ KeyLess(d[i].k, d[j].k)
                                              \/ (~KeyLess(d[j].k, d[i].k) /\ i < j)
         IN  <<d[i]>> \o SortMembers([j \in 1..(Len(d) - 1) |->
                                          IF j < i THEN d[j] ELSE d[j + 1]])

\* _ordered_dict leaving the keys as inserted
_ordered_dict_unsorted(d) == d

_ordered_dict(d) == SortMembers(d)

\* the keys of S as a sequence, in canonical order or in the reverse of it
RECURSIVE KeySeq(_, _)
KeySeq(S, rev) ==
    IF S = {} THEN <<>>
    ELSE LET f == CHOOSE f \in S : \A g \in S :
                      g = f \/ (IF rev THEN KeyLess(g, f) ELSE KeyLess(f, g))
         IN  <<f>> \o KeySeq(S \ {f}, rev)

\* iteration order of a frozenset of field names under the process's hash seed
IterOrder(S) ==
    LET n == Len(AlphaOrder)
        order == IF hashSeed = 0 THEN AlphaOrder ELSE [i \in 1..n |-> AlphaOrder[n + 1 - i]]
    IN  SelectSeq(order, LAMBDA f : f \in S)

----
\* Field reconciler.

\* _filter_author returning the author object as given
_filter_author_keeps_all(author) ==
    IF author.kind # "obj" THEN NoneVal
    ELSE IF author.o # <<>> THEN Obj(author.o) ELSE NoneVal

_filter_author(author) ==
    IF author.kind # "obj" THEN NoneVal
    ELSE LET filtered == SelectSeq(author.o, LAMBDA m : m.k \in _documented_author_fields)
         IN  IF filtered # <<>> THEN Obj(filtered) ELSE NoneVal

\* for field in fields: if field in from: into[field] = deepcopy(from[field])
RECURSIVE CopyFields(_, _, _)
CopyFields(fields, from, into) ==
    IF fields = <<>> THEN into
    ELSE LET f == Head(fields)
         IN  CopyFields(Tail(fields), from,
                        IF Has(from, f) THEN Put(into, f, Get(from, f)) ELSE into)

\* merge_plugin with its two field sets as parameters: keep_from_entry (copied
\* from the entry first) and the fields copied from source over them
MergeFields(entry, source, keep_from_entry, from_source) ==
    LET kept == CopyFields(IterOrder(keep_from_entry), entry, <<>>)
        copied == CopyFields(IterOrder(from_source), source, kept)
        merged == IF Has(copied, "author")
                  THEN LET author == _filter_author(Get(copied, "author"))
                       IN  IF author # NoneVal
                           THEN Put(copied, "author", author)
                           ELSE Del(copied, "author")
                  ELSE copied
    IN  _ordered_dict(merged)

\* slip: the source loop runs over every documented field, protected ones too
merge_plugin_source_overwrites_protected(entry, source) ==
    MergeFields(entry, source, PROTECTED_FIELDS \cup MARKETPLACE_ONLY_FIELDS,
                _documented_plugin_fields)

\* slip: every documented field of the entry is kept when source lacks it
merge_plugin_keeps_stale_fields(entry, source) ==
    MergeFields(entry, source, _documented_plugin_fields,
                _documented_plugin_fields \ PROTECTED_FIELDS)

\* slip: only the protected fields are kept from the entry
merge_plugin_drops_marketplace_only(entry, source) ==
    MergeFields(entry, source, PROTECTED_FIELDS,
                _documented_plugin_fields \ PROTECTED_FIELDS)

\* slip: the merged dict is returned as built, without _ordered_dict
merge_plugin_unordered(entry, source) ==
    LET kept == CopyFields(IterOrder(PROTECTED_FIELDS \cup MARKETPLACE_ONLY_FIELDS), entry, <<>>)
        copied == CopyFields(IterOrder(_documented_plugin_fields \ PROTECTED_FIELDS),
                             source, kept)
    IN  IF Has(copied, "author")
        THEN LET author == _filter_author(Get(copied, "author"))
             IN  IF author # NoneVal
                 THEN Put(copied, "author", author)
                 ELSE Del(copied, "author")
        ELSE copied

merge_plugin(entry, source) ==
    LET documented == _documented_plugin_fields
        keep_from_entry == PROTECTED_FIELDS \cup MARKETPLACE_ONLY_FIELDS
    IN  MergeFields(entry, source, keep_from_entry, documented \ PROTECTED_FIELDS)

----
\* Version bumper.  The semver package's Version.parse, finalize_version,
\* bump_patch and __str__, on token strings.

Digits == <<"0", "1", "2", "3", "4", "5", "6", "7", "8", "9">>

IsDigit(t) == \E i \in 1..Len(Digits) : Digits[i] = t

DigitVal(t) == (CHOOSE i \in 1..Len(Digits) : Digits[i] = t) - 1

\* position of the first token t in s, 0 when there is none
FirstIndex(s, t) ==
    IF \E i \in 1..Len(s) : s[i] = t
    THEN CHOOSE i \in 1..Len(s) : s[i] = t /\ \A j \in 1..(i - 1) : s[j] # t
    ELSE 0

\* s.split(".")
RECURSIVE SplitDots(_)
SplitDots(s) ==
    LET d == FirstIndex(s, ".")
    IN  IF d = 0 THEN <<s>>
        ELSE <<SubSeq(s, 1, d - 1)>> \o SplitDots(SubSeq(s, d + 1, Len(s)))

AllDigits(s) == \A i \in 1..Len(s) : IsDigit(s[i])

\* 0|[1-9]\d*
IsNumericId(s) == s # <<>> /\ AllDigits(s) /\ (Len(s) > 1 => s[1] # "0")

\* an identifier of a pre-release: numeric without leading zeros, or alphanumeric
IsPrereleaseId(s) ==
    /\ s # <<>>
    /\ \A i \in 1..Len(s) : s[i] \notin {".", "+"}
    /\ (AllDigits(s) => IsNumericId(s))

\* an identifier of build metadata: [0-9a-zA-Z-]+
IsBuildId(s) == s # <<>> /\ \A i \in 1..Len(s) : s[i] \notin {".", "+"}

RECURSIVE NumVal(_)
NumVal(s) == IF s = <<>> THEN 0 ELSE NumVal(SubSeq(s, 1, Len(s) - 1)) * 10 + DigitVal(s[Len(s)])

RECURSIVE NatToDigits(_)
NatToDigits(n) ==
    IF n < 10 THEN <<Digits[n + 1]>>
    ELSE NatToDigits(n \div 10) \o <<Digits[(n % 10) + 1]>>

NoSuffix == <<>>

\* semver.Version.parse: valid is FALSE where parse raises ValueError; an
\* absent pre-release or build (None) is NoSuffix, a present one is never empty
VersionParse(version) ==
    LET plus == FirstIndex(version, "+")
        body == IF plus = 0 THEN version ELSE SubSeq(version, 1, plus - 1)
        build == IF plus = 0 THEN NoSuffix ELSE SubSeq(version, plus + 1, Len(version))
        dash == FirstIndex(body, "-")
        core == IF dash = 0 THEN body ELSE SubSeq(body, 1, dash - 1)
        prerelease == IF dash = 0 THEN NoSuffix ELSE SubSeq(body, dash + 1, Len(body))
        parts == SplitDots(core)
        valid == /\ Len(parts) = 3
                 /\ \A i \in 1..Len(parts) : IsNumericId(parts[i])
                 /\ (dash # 0 => \A id \in {SplitDots(prerelease)[i] :
                                              i \in 1..Len(SplitDots(prerelease))} :
                                    IsPrereleaseId(id))
                 /\ (plus # 0 => \A id \in {SplitDots(build)[i] :
                                              i \in 1..Len(SplitDots(build))} :
                                    IsBuildId(id))
    IN  IF valid
        THEN [valid |-> TRUE, major |-> NumVal(parts[1]), minor |-> NumVal(parts[2]),
              patch |-> NumVal(parts[3]), prerelease |-> prerelease, build |-> build]
        ELSE [valid |-> FALSE, major |-> 0, minor |-> 0, patch |-> 0,
              prerelease |-> NoSuffix, build |-> NoSuffix]

\* str(Version)
VersionStr(v) ==
    NatToDigits(v.major) \o <<".">> \o NatToDigits(v.minor) \o <<".">> \o NatToDigits(v.patch)
        \o (IF v.prerelease # NoSuffix THEN <<"-">> \o v.prerelease ELSE <<>>)
        \o (IF v.build # NoSuffix THEN <<"+">> \o v.build ELSE <<>>)

finalize_version(v) == [v EXCEPT !.prerelease = NoSuffix, !.build = NoSuffix]

bump_patch(v) ==
    [v EXCEPT !.patch = v.patch + 1, !.prerelease = NoSuffix, !.build = NoSuffix]

\* the result of a call that may raise
Returned(value) == [raised |-> FALSE, value |-> value]

Raised(exc) == [raised |-> TRUE, value |-> <<exc>>]

\* bump_version taking the patch bump for a pre-release too
bump_version_bumps_prerelease(version) ==
    LET v == VersionParse(version)
    IN  IF ~v.valid THEN Raised("ValueError")
        ELSE Returned(VersionStr(bump_patch(v)))

bump_version(version) ==
    LET v == VersionParse(version)
    IN  IF ~v.valid THEN Raised("ValueError")
        ELSE IF v.prerelease # NoSuffix THEN Returned(VersionStr(finalize_version(v)))
        ELSE Returned(VersionStr(bump_patch(v)))

----
\* Serialisation: json.dumps as a token sequence.  ws is the whitespace that
\* the indent argument puts before each member and closing bracket.

Indent2 == <<"\n  ">>

DumpStr(s) == <<"\"">> \o s \o <<"\"">>

\* an object whose members carry strings
DumpStrObj(o, ws) ==
    <<"{">> \o Concat([i \in 1..Len(o) |->
                ws \o DumpStr(<<o[i].k>>) \o <<":">> \o DumpStr(o[i].v)
                   \o (IF i < Len(o) THEN <<",">> ELSE <<>>)])
            \o ws \o <<"}">>

DumpVal(v, ws) ==
    CASE v.kind = "str" -> DumpStr(v.s)
      [] v.kind = "obj" -> DumpStrObj(v.o, ws)
      [] OTHER -> <<v.kind>> \o v.s

\* an element of the plugins list
DumpItem(e, ws) ==
    IF e.kind = "obj"
    THEN <<"{">> \o Concat([i \in 1..Len(e.o) |->
                    ws \o DumpStr(<<e.o[i].k>>) \o <<":">> \o DumpVal(e.o[i].v, ws)
                       \o (IF i < Len(e.o) THEN <<",">> ELSE <<>>)])
                 \o ws \o <<"}">>
    ELSE DumpVal(e, ws)

DumpPlugins(p, ws) ==
    IF p.kind = "list"
    THEN <<"[">> \o Concat([i \in 1..Len(p.o) |->
                    ws \o DumpItem(p.o[i], ws) \o (IF i < Len(p.o) THEN <<",">> ELSE <<>>)])
                 \o ws \o <<"]">>
    ELSE DumpVal(p, ws)

\* the document: its leading members (head), then plugins, then metadata
DumpDoc(doc, ws) ==
    <<"{">> \o ws \o <<"head", ":", doc.head>>
        \o (IF doc.plugins.kind # "none"
            THEN <<",">> \o ws \o <<"plugins", ":">> \o DumpPlugins(doc.plugins, ws) ELSE <<>>)
        \o (IF doc.metadata.kind # "none"
            THEN <<",">> \o ws \o <<"metadata", ":">> \o DumpVal(doc.metadata, ws) ELSE <<>>)
        \o ws \o <<"}">>

\* json.dumps(marketplace, indent=2, ensure_ascii=False)
json_dumps(doc) == DumpDoc(doc, Indent2)

_serialize(doc) == json_dumps(doc) \o <<"\n">>

----
\* Validation.  The schema part of both validators follows the registry and
\* manifest schemas; the duplicate-name loop is validate_marketplace's own.

Err(i, field, msg, arg) == [idx |-> i, field |-> field, msg |-> msg, arg |-> arg]

StringFields == {"name", "version", "description", "homepage", "repository",
                 "license", "category"}

ListFields == {"keywords", "tags"}

MetadataFields == {"description", "version", "pluginRoot"}

\* properties of the manifest schema: the entry's fields without the
\* location and the registry-only fields
ManifestFields ==
    _documented_plugin_fields \ ({"source", "settings"} \cup MARKETPLACE_ONLY_FIELDS)

ValueTypeOk(k, v) ==
    CASE k \in StringFields -> v.kind = "str"
      [] k \in ListFields -> v.kind = "list"
      [] k = "strict" -> v.kind = "bool"
      [] k = "settings" -> v.kind = "obj"
      [] k = "author" ->
            /\ v.kind = "obj"
            /\ Keys(v.o) \subseteq _documented_author_fields
            /\ Has(v.o, "name")
      [] k = "source" ->
            \/ v.kind = "str"
            \/ /\ v.kind = "obj"
               /\ Has(v.o, "source")
               /\ (Get(v.o, "source") = <<"github">> => Has(v.o, "repo"))
      [] OTHER -> TRUE

\* errors of one object against a closed property set with required members
ObjectSchemaErrors(i, o, allowed, required) ==
    LET req == KeySeq(required, FALSE)
    IN  Concat([n \in 1..Len(req) |->
                    IF Has(o, req[n]) THEN <<>>
                    ELSE <<Err(i, req[n], "is a required property", <<>>)>>])
        \o Concat([n \in 1..Len(o) |->
                    IF o[n].k \notin allowed
                    THEN <<Err(i, o[n].k, "Additional properties are not allowed", <<>>)>>
                    ELSE IF ~ValueTypeOk(o[n].k, o[n].v)
                    THEN <<Err(i, o[n].k, "is not valid under the schema", <<>>)>>
                    ELSE <<>>])

MarketplaceSchemaErrors(doc) ==
    (IF doc.head = "ok" THEN <<>> ELSE <<Err(-1, "(root)", "is a required property", <<>>)>>)
    \o (CASE doc.plugins.kind = "none" ->
                <<Err(-1, "plugins", "is a required property", <<>>)>>
          [] doc.plugins.kind = "list" ->
                Concat([n \in 1..Len(doc.plugins.o) |->
                    IF doc.plugins.o[n].kind # "obj"
                    THEN <<Err(n - 1, "", "is not of type 'object'", <<>>)>>
                    ELSE ObjectSchemaErrors(n - 1, doc.plugins.o[n].o,
                                            _documented_plugin_fields, {"name", "source"})])
          [] OTHER -> <<Err(-1, "plugins", "is not of type 'array'", <<>>)>>)
    \o (CASE doc.metadata.kind = "none" -> <<>>
          [] doc.metadata.kind = "obj" ->
                Concat([n \in 1..Len(doc.metadata.o) |->
                    IF doc.metadata.o[n].k \in MetadataFields THEN <<>>
                    ELSE <<Err(-1, doc.metadata.o[n].k,
                               "Additional properties are not allowed", <<>>)>>])
          [] OTHER -> <<Err(-1, "metadata", "is not of type 'object'", <<>>)>>)

\* what enumerate(marketplace.get("plugins", [])) walks over: Raised when the
\* value is not iterable
PluginsIterable(plugins) ==
    CASE plugins.kind = "none" -> Returned(<<>>)
      [] plugins.kind = "list" -> Returned(plugins.o)
      [] plugins.kind = "str" -> Returned([n \in 1..Len(plugins.s) |-> Str(<<plugins.s[n]>>)])
      [] plugins.kind = "obj" -> Returned([n \in 1..Len(plugins.o) |-> Str(<<plugins.o[n].k>>)])
      [] OTHER -> Raised("TypeError")

\* the duplicate-name loop remembering only the previous entry's name
RECURSIVE DuplicateNameLoop_adjacent_only(_, _, _, _)
DuplicateNameLoop_adjacent_only(items, n, seen, errors) ==
    IF n > Len(items) THEN Returned(errors)
    ELSE LET plugin == items[n]
         IN  IF plugin.kind # "obj" THEN Raised("AttributeError")
             ELSE LET name == IF Has(plugin.o, "name") THEN Get(plugin.o, "name") ELSE NoneVal
                  IN  IF name.kind \in {"none", "null"}
                      THEN DuplicateNameLoop_adjacent_only(items, n + 1, seen, errors)
                      ELSE IF name.kind \in {"obj", "list"} THEN Raised("TypeError")
                      ELSE DuplicateNameLoop_adjacent_only(items, n + 1, {name},
                              IF name \in seen
                              THEN Append(errors, Err(n - 1, "name",
                                                      "Duplicate plugin name", name.s))
                              ELSE errors)

\* the duplicate-name loop from element n on
RECURSIVE DuplicateNameLoop(_, _, _, _)
DuplicateNameLoop(items, n, seen, errors) ==
    IF n > Len(items) THEN Returned(errors)
    ELSE LET plugin == items[n]
         IN  IF plugin.kind # "obj" THEN Raised("AttributeError")
             ELSE LET name == IF Has(plugin.o, "name") THEN Get(plugin.o, "name") ELSE NoneVal
                  IN  IF name.kind \in {"none", "null"}
                      THEN DuplicateNameLoop(items, n + 1, seen, errors)
                      ELSE IF name.kind \in {"obj", "list"} THEN Raised("TypeError")
                      ELSE DuplicateNameLoop(items, n + 1, seen \cup {name},
                              IF name \in seen
                              THEN Append(errors, Err(n - 1, "name",
                                                      "Duplicate plugin name", name.s))
                              ELSE errors)

validate_marketplace(doc) ==
    LET errors == MarketplaceSchemaErrors(doc)
        plugins == PluginsIterable(doc.plugins)
    IN  IF plugins.raised THEN plugins
        ELSE DuplicateNameLoop(plugins.value, 1, {}, errors)

validate_plugin_config(config) ==
    IF config.kind # "obj"
    THEN <<Err(-1, "(root)", "is not of type 'object'", <<>>)>>
    ELSE ObjectSchemaErrors(-1, config.o, ManifestFields, {"name"})

----
\* Fetch port.  A response is what the Contents API call produced: whether
\* raise_for_status passed, the encoding member, whether the content decodes
\* (base64 and JSON), and the decoded document.

Response(status, encoding, decodes, json) ==
    [status |-> status, encoding |-> encoding, decodes |-> decodes, json |-> json]

NoResponse == Response("none", "", FALSE, NoneVal)

fetch_plugin_config(resp) ==
    IF resp.status # "ok" THEN Raised("HTTPError")
    ELSE IF resp.encoding # "base64" THEN Raised("ValueError")
    ELSE IF ~resp.decodes THEN Raised("JSONDecodeError")
    ELSE Returned(resp.json)

----
\* Merge harness: merge_plugin applied to bounded entries and manifests.

MergeKeys == {"name", "source", "version", "author", "category", "settings", "bogus"}

EntryVariants == {1, 2}

SourceVariants == {1, 2, 3, 4}

GithubSource(repo) ==
    Obj(<<Member("source", <<"github">>), Member("repo", <<repo>>)>>)

FieldValue(k, variant) ==
    CASE k = "author" ->
            (CASE variant = 1 -> Obj(<<Member("name", <<"dev">>)>>)
               [] variant = 2 -> Obj(<<Member("name", <<"dev">>), Member("bogus", <<"true">>),
                                       Member("url", <<"https://dev">>)>>)
               [] variant = 3 -> Obj(<<Member("bogus", <<"true">>)>>)
               [] OTHER -> Str(<<"just a string">>))
      [] k = "source" ->
            (IF variant % 2 = 1 THEN GithubSource("kept/repo") ELSE Str(<<"./path">>))
      [] OTHER -> Str(<<IF variant % 2 = 1 THEN "old" ELSE "new">>)

MkDict(S, variant, rev) ==
    LET ks == KeySeq(S, rev)
    IN  [i \in 1..Len(ks) |-> Member(ks[i], FieldValue(ks[i], variant))]

InputDicts(variants) ==
    {MkDict(S, variant, rev) :
        S \in {T \in SUBSET MergeKeys : Cardinality(T) <= MaxKeys},
        variant \in variants, rev \in BOOLEAN}

HashSeeds == {0, 1}

IdleDisk == [exists |-> FALSE, doc |-> <<>>, fmt |-> "none"]

MergeInit ==
    /\ hashSeed \in HashSeeds
    /\ mEntry \in InputDicts(EntryVariants)
    /\ mSource \in InputDicts(SourceVariants)
    /\ mResult = <<>>
    /\ mDone = FALSE
    /\ disk = IdleDisk
    /\ pc = "idle"
    /\ marketplace = <<>>
    /\ original = <<>>
    /\ idx = 0
    /\ had_errors = FALSE
    /\ exitCode = -1
    /\ preErrors = <<>>
    /\ postErrors = <<>>
    /\ log = <<>>
    /\ disk0 = IdleDisk
    /\ outcome = "idle"
    /\ runs = 0
    /\ upstream = <<>>
    /\ hInput = <<>>
    /\ hOutput = <<>>
    /\ hDone = FALSE

MergeCall ==
    /\ ~mDone
    /\ mResult' = merge_plugin(mEntry, mSource)
    /\ mDone' = TRUE
    /\ UNCHANGED <<hashSeed, mEntry, mSource, refreshVars, harnessVars>>

MergeNext == MergeCall

MergeSpec == MergeInit /\ [][MergeNext]_vars

----
\* C1: merge_plugin(E, M) has name equal to E.name and source equal to
\* E.source, whatever M carries under the keys name and source.
C1_ProtectedFieldsKept ==
    mDone =>
        \A F \in PROTECTED_FIELDS :
            Has(mEntry, F) => Has(mResult, F) /\ Get(mResult, F) = Get(mEntry, F)

C1_Witness ==
    /\ mDone
    /\ \A F \in PROTECTED_FIELDS :
          /\ Has(mEntry, F) /\ Has(mSource, F)
          /\ Get(mSource, F) # Get(mEntry, F)
          /\ Get(mResult, F) = Get(mEntry, F)

\* C2: a documented field that is neither protected nor marketplace-only is
\* taken from M when M has it (author is sanitised instead of copied) and is
\* absent from the result when M lacks it, even if E has it.
C2_SharedFieldsFromSource ==
    mDone =>
        \A F \in _documented_plugin_fields \ (PROTECTED_FIELDS \cup MARKETPLACE_ONLY_FIELDS) :
            IF Has(mSource, F)
            THEN F # "author" => Has(mResult, F) /\ Get(mResult, F) = Get(mSource, F)
            ELSE ~Has(mResult, F)

C2_Witness ==
    /\ mDone
    /\ Has(mEntry, "version") /\ Has(mSource, "version")
    /\ Get(mEntry, "version") # Get(mSource, "version")
    /\ Get(mResult, "version") = Get(mSource, "version")
    /\ Has(mEntry, "author") /\ ~Has(mSource, "author") /\ ~Has(mResult, "author")

\* C3: a marketplace-only field (category, tags, strict) is taken from M when
\* M has it, kept from E when only E has it, and absent when neither has it.
C3_MarketplaceOnlyFields ==
    mDone =>
        \A F \in MARKETPLACE_ONLY_FIELDS :
            IF Has(mSource, F)
            THEN Has(mResult, F) /\ Get(mResult, F) = Get(mSource, F)
            ELSE IF Has(mEntry, F)
                 THEN Has(mResult, F) /\ Get(mResult, F) = Get(mEntry, F)
                 ELSE ~Has(mResult, F)

C3_Witness ==
    /\ mDone
    /\ Has(mEntry, "category") /\ ~Has(mSource, "category")
    /\ Has(mSource, "version")
    /\ Get(mResult, "category") = Get(mEntry, "category")

----
\* Refresh run: the registries a run may find on disk and the responses the
\* fetch port may give.

Entry(members) == [kind |-> "obj", s |-> <<>>, o |-> members]

\* keys in canonical order
EntryGithub ==
    Entry(<<Member("name", Str(<<"p">>)),
            Member("source", GithubSource("owner/repo")),
            Member("version", Str(<<"1.0.0">>))>>)

\* a valid entry whose keys are not in canonical order
EntryUnordered ==
    Entry(<<Member("name", Str(<<"q">>)),
            Member("version", Str(<<"1.0.0">>)),
            Member("source", GithubSource("owner/other")),
            Member("category", Str(<<"tools">>))>>)

EntryLocal ==
    Entry(<<Member("name", Str(<<"local">>)), Member("source", Str(<<"./path">>))>>)

EntryNpm ==
    Entry(<<Member("name", Str(<<"npm-thing">>)),
            Member("source", Obj(<<Member("source", <<"npm">>),
                                   Member("package", <<"pkg">>)>>))>>)

\* rejected by the schema: an undocumented field
EntryBogus ==
    Entry(<<Member("name", Str(<<"b">>)),
            Member("source", GithubSource("owner/repo")),
            Member("bogus", Opaque("bool", <<"true">>))>>)

\* a plugins element that is not an object
NonObjectItem == Opaque("num", <<"42">>)

RegistryItems ==
    {EntryGithub, EntryUnordered, EntryLocal, EntryNpm, EntryBogus, NonObjectItem}

MetadataChoices ==
    {NoneVal,
     Obj(<<Member("version", <<"0", ".", "0", ".", "1">>)>>),
     Obj(<<Member("version", <<"1", ".", "0", ".", "0", "-", "rc", ".", "1">>)>>),
     Obj(<<Member("version", <<"1", ".", "0">>)>>),
     Obj(<<Member("description", <<"plugins">>)>>)}

Doc(head, plugins, metadata) == [head |-> head, plugins |-> plugins, metadata |-> metadata]

ListOf(items) == [kind |-> "list", s |-> <<>>, o |-> items]

Registries ==
    {Doc("ok", ListOf(items), metadata) :
        items \in UNION {[1..n -> RegistryItems] : n \in 0..MaxPlugins},
        metadata \in MetadataChoices}
    \cup {Doc("ok", Str(<<"not-a-list">>), NoneVal),
          Doc("not valid", NoneVal, NoneVal)}

FileFormats == {"compact", "indent2"}

DiskStates ==
    {IdleDisk} \cup {[exists |-> TRUE, doc |-> doc, fmt |-> fmt] :
                        doc \in Registries, fmt \in FileFormats}

Config(members) == [kind |-> "obj", s |-> <<>>, o |-> members]

\* the manifest of plugin name with the descriptive fields that EntryGithub
\* (name p) and EntryUnordered (name q) already hold
ManifestSame(name) ==
    Config(<<Member("name", Str(<<name>>)), Member("version", Str(<<"1.0.0">>))>>)

ManifestNew ==
    Config(<<Member("name", Str(<<"p">>)), Member("version", Str(<<"2.0.0">>)),
             Member("description", Str(<<"new">>))>>)

\* fails the manifest schema: no name, an undocumented field
ManifestBogus == Config(<<Member("bogus", Opaque("bool", <<"true">>))>>)

Manifests == {ManifestSame("p"), ManifestSame("q"), ManifestNew, ManifestBogus}

Responses ==
    {Response("HTTPError", "", FALSE, NoneVal),
     Response("ok", "none", FALSE, NoneVal),
     Response("ok", "base64", FALSE, NoneVal)}
    \cup {Response("ok", "base64", TRUE, m) : m \in Manifests}

\* the value of preErrors and postErrors before the validation has run
NotRun == [raised |-> FALSE, value |-> <<Err(-2, "", "validation has not run", <<>>)>>]

Init ==
    /\ hashSeed \in HashSeeds
    /\ disk \in DiskStates
    /\ disk0 = disk
    /\ pc = "start"
    /\ marketplace = <<>>
    /\ original = <<>>
    /\ idx = 0
    /\ had_errors = FALSE
    /\ exitCode = -1
    /\ preErrors = NotRun
    /\ postErrors = NotRun
    /\ log = <<>>
    /\ outcome = "running"
    /\ runs = 1
    /\ upstream = <<>>
    /\ hInput = <<>>
    /\ hOutput = <<>>
    /\ hDone = FALSE
    /\ mEntry = <<>>
    /\ mSource = <<>>
    /\ mResult = <<>>
    /\ mDone = FALSE

\* the process ends with the given status
Exit(code, how) ==
    /\ pc' = "done"
    /\ exitCode' = code
    /\ outcome' = how

\* lines 252-255: the existence check and json.loads
Load ==
    /\ pc = "start"
    /\ IF ~disk.exists
       THEN Exit(1, "not found") /\ UNCHANGED marketplace
       ELSE /\ marketplace' = disk.doc
            /\ pc' = "loaded"
            /\ UNCHANGED <<exitCode, outcome>>
    /\ UNCHANGED <<hashSeed, disk, disk0, original, idx, had_errors, preErrors,
                   postErrors, log, mergeVars, harnessVars, runs, upstream>>

\* slip: the errors are reported but the run goes on
PreValidate_goes_on ==
    /\ pc = "loaded"
    /\ LET errors == validate_marketplace(marketplace)
       IN  /\ preErrors' = errors
           /\ IF errors.raised
              THEN Exit(1, "uncaught exception") /\ UNCHANGED original
              ELSE /\ original' = json_dumps(marketplace)
                   /\ pc' = "loop"
                   /\ UNCHANGED <<exitCode, outcome>>
    /\ UNCHANGED <<hashSeed, disk, disk0, marketplace, idx, had_errors, postErrors,
                   log, mergeVars, harnessVars, runs, upstream>>

\* lines 259-272: the up-front validation and the snapshot
PreValidate ==
    /\ pc = "loaded"
    /\ LET errors == validate_marketplace(marketplace)
       IN  /\ preErrors' = errors
           /\ IF errors.raised
              THEN Exit(1, "uncaught exception") /\ UNCHANGED original
              ELSE IF Len(errors.value) > 0
              THEN Exit(1, "invalid before refresh") /\ UNCHANGED original
              ELSE /\ original' = json_dumps(marketplace)
                   /\ pc' = "loop"
                   /\ UNCHANGED <<exitCode, outcome>>
    /\ UNCHANGED <<hashSeed, disk, disk0, marketplace, idx, had_errors, postErrors,
                   log, mergeVars, harnessVars, runs, upstream>>

\* plugin.get("source", {})
SourceOf(plugin) == IF Has(plugin.o, "source") THEN Get(plugin.o, "source") ELSE Obj(<<>>)

\* lines 280-287: only a structured source of kind github is refreshed
IsGithub(plugin) ==
    LET source == SourceOf(plugin)
    IN  /\ source.kind # "str"
        /\ Has(source.o, "source")
        /\ Get(source.o, "source") = <<"github">>

CurrentPlugin == marketplace.plugins.o[idx + 1]

\* lines 280-287: continue
SkipEntry ==
    /\ pc = "loop"
    /\ idx < Len(marketplace.plugins.o)
    /\ ~IsGithub(CurrentPlugin)
    /\ log' = Append(log, [i |-> idx, what |-> "skipped", resp |-> NoResponse])
    /\ idx' = idx + 1
    /\ UNCHANGED <<hashSeed, disk, disk0, pc, marketplace, original, had_errors, exitCode,
                   preErrors, postErrors, outcome, mergeVars, harnessVars, runs, upstream>>

\* slip: a manifest that fails validation is merged all the same
refresh_entry_merges_invalid(plugin, resp) ==
    LET fetched == fetch_plugin_config(resp)
    IN  IF fetched.raised \/ fetched.value.kind # "obj"
        THEN [plugin |-> plugin, failed |-> TRUE, what |-> "fetch error"]
        ELSE [plugin |-> Entry(merge_plugin(plugin.o, fetched.value.o)),
              failed |-> Len(validate_plugin_config(fetched.value)) > 0,
              what |-> IF Len(validate_plugin_config(fetched.value)) > 0
                       THEN "invalid config" ELSE "merged"]

\* lines 291-313: the try block for one github entry, given the response
refresh_entry(plugin, resp) ==
    LET fetched == fetch_plugin_config(resp)
    IN  IF fetched.raised
        THEN [plugin |-> plugin, failed |-> TRUE, what |-> "fetch error"]
        ELSE IF Len(validate_plugin_config(fetched.value)) > 0
        THEN [plugin |-> plugin, failed |-> TRUE, what |-> "invalid config"]
        ELSE [plugin |-> Entry(merge_plugin(plugin.o, fetched.value.o)),
              failed |-> FALSE, what |-> "merged"]

\* slip: had_errors is assigned the last entry's result instead of set once
RefreshEntry_last_result_wins ==
    /\ pc = "loop"
    /\ idx < Len(marketplace.plugins.o)
    /\ IsGithub(CurrentPlugin)
    /\ \E resp \in Responses :
          LET r == refresh_entry(CurrentPlugin, resp)
          IN  /\ marketplace' = [marketplace EXCEPT !.plugins.o[idx + 1] = r.plugin]
              /\ had_errors' = r.failed
              /\ log' = Append(log, [i |-> idx, what |-> r.what, resp |-> resp])
    /\ idx' = idx + 1
    /\ UNCHANGED <<hashSeed, disk, disk0, pc, original, exitCode, preErrors, postErrors,
                   outcome, mergeVars, harnessVars, runs, upstream>>

\* slip: an entry whose fetch or validation failed is tried a second time
RefreshEntry_retries ==
    /\ pc = "loop"
    /\ idx < Len(marketplace.plugins.o)
    /\ IsGithub(CurrentPlugin)
    /\ \E resp \in Responses :
          LET r == refresh_entry(CurrentPlugin, resp)
              again == r.failed /\ (log = <<>> \/ log[Len(log)].i # idx)
          IN  /\ marketplace' = [marketplace EXCEPT !.plugins.o[idx + 1] = r.plugin]
              /\ had_errors' = (had_errors \/ (r.failed /\ ~again))
              /\ log' = Append(log, [i |-> idx, what |-> r.what, resp |-> resp])
              /\ idx' = IF again THEN idx ELSE idx + 1
    /\ UNCHANGED <<hashSeed, disk, disk0, pc, original, exitCode, preErrors, postErrors,
                   outcome, mergeVars, harnessVars, runs, upstream>>

\* lines 289-313: fetch, validate and merge one github entry
RefreshEntry ==
    /\ pc = "loop"
    /\ idx < Len(marketplace.plugins.o)
    /\ IsGithub(CurrentPlugin)
    /\ \E resp \in Responses :
          LET r == refresh_entry(CurrentPlugin, resp)
          IN  /\ upstream # <<>> => (idx < Len(upstream) /\ resp = upstream[idx + 1])
              /\ marketplace' = [marketplace EXCEPT !.plugins.o[idx + 1] = r.plugin]
              /\ had_errors' = (had_errors \/ r.failed)
              /\ log' = Append(log, [i |-> idx, what |-> r.what, resp |-> resp])
    /\ idx' = idx + 1
    /\ UNCHANGED <<hashSeed, disk, disk0, pc, original, exitCode, preErrors, postErrors,
                   outcome, mergeVars, harnessVars, runs, upstream>>

\* slip: the version is looked up where the registry does not keep it
CurrentVersion_ignores_metadata(doc) == <<"0", ".", "0", ".", "0">>

\* marketplace.get("metadata", {}).get("version", "0.0.0")
CurrentVersion(doc) ==
    IF doc.metadata.kind = "obj" /\ Has(doc.metadata.o, "version")
    THEN Get(doc.metadata.o, "version")
    ELSE <<"0", ".", "0", ".", "0">>

\* marketplace.setdefault("metadata", {})["version"] = next_ver
SetVersion(doc, next_ver) ==
    [doc EXCEPT !.metadata =
        Obj(Put(IF doc.metadata.kind = "obj" THEN doc.metadata.o ELSE <<>>,
                "version", next_ver))]

\* slip: the version is bumped whether or not anything changed
BumpIfChanged_always ==
    /\ pc = "loop"
    /\ idx = Len(marketplace.plugins.o)
    /\ LET next_ver == bump_version(CurrentVersion(marketplace))
       IN  IF next_ver.raised
           THEN Exit(1, "uncaught exception") /\ UNCHANGED marketplace
           ELSE /\ marketplace' = SetVersion(marketplace, next_ver.value)
                /\ pc' = "validate"
                /\ UNCHANGED <<exitCode, outcome>>
    /\ UNCHANGED <<hashSeed, disk, disk0, original, idx, had_errors, preErrors, postErrors,
                   log, mergeVars, harnessVars, runs, upstream>>

\* lines 316-323: change detection and the version bump
BumpIfChanged ==
    /\ pc = "loop"
    /\ idx = Len(marketplace.plugins.o)
    /\ LET updated == json_dumps(marketplace)
       IN  IF updated # original
           THEN LET current == CurrentVersion(marketplace)
                    next_ver == bump_version(current)
                IN  IF next_ver.raised
                    THEN Exit(1, "uncaught exception") /\ UNCHANGED marketplace
                    ELSE /\ marketplace' = SetVersion(marketplace, next_ver.value)
                         /\ pc' = "validate"
                         /\ UNCHANGED <<exitCode, outcome>>
           ELSE /\ pc' = "validate"
                /\ UNCHANGED <<marketplace, exitCode, outcome>>
    /\ UNCHANGED <<hashSeed, disk, disk0, original, idx, had_errors, preErrors, postErrors,
                   log, mergeVars, harnessVars, runs, upstream>>

\* slip: the registry goes to the write without the validation
PostValidate_skipped ==
    /\ pc = "validate"
    /\ pc' = "write"
    /\ UNCHANGED <<hashSeed, disk, disk0, marketplace, original, idx, had_errors,
                   preErrors, postErrors, log, exitCode, outcome, mergeVars, harnessVars, runs, upstream>>

\* lines 326-331: the validation before writing
PostValidate ==
    /\ pc = "validate"
    /\ LET errors == validate_marketplace(marketplace)
       IN  /\ postErrors' = errors
           /\ IF errors.raised
              THEN Exit(1, "uncaught exception")
              ELSE IF Len(errors.value) > 0
              THEN Exit(1, "invalid after refresh")
              ELSE pc' = "write" /\ UNCHANGED <<exitCode, outcome>>
    /\ UNCHANGED <<hashSeed, disk, disk0, marketplace, original, idx, had_errors,
                   preErrors, log, mergeVars, harnessVars, runs, upstream>>

\* slip: the file is written back in the formatting it was read in
Persist_keeps_format ==
    /\ pc = "write"
    /\ disk' = [exists |-> TRUE, doc |-> marketplace, fmt |-> disk.fmt]
    /\ IF had_errors THEN Exit(1, "partial failure") ELSE Exit(0, "ok")
    /\ UNCHANGED <<hashSeed, disk0, marketplace, original, idx, had_errors, preErrors,
                   postErrors, log, mergeVars, harnessVars, runs, upstream>>

\* lines 333-340: the write and the exit status
Persist ==
    /\ pc = "write"
    /\ disk' = [exists |-> TRUE, doc |-> marketplace, fmt |-> "indent2"]
    /\ IF had_errors THEN Exit(1, "partial failure") ELSE Exit(0, "ok")
    /\ UNCHANGED <<hashSeed, disk0, marketplace, original, idx, had_errors, preErrors,
                   postErrors, log, mergeVars, harnessVars, runs, upstream>>

\* the next invocation of cmd_refresh, in a new process, on the file as the
\* last run left it; responses, when not empty, are what the fetch port will
\* answer for each list position
NewRun(responses) ==
    /\ pc = "done"
    /\ runs < MaxRuns
    /\ runs' = runs + 1
    /\ hashSeed' \in HashSeeds
    /\ upstream' = responses
    /\ disk0' = disk
    /\ pc' = "start"
    /\ marketplace' = <<>>
    /\ original' = <<>>
    /\ idx' = 0
    /\ had_errors' = FALSE
    /\ exitCode' = -1
    /\ preErrors' = NotRun
    /\ postErrors' = NotRun
    /\ log' = <<>>
    /\ outcome' = "running"
    /\ UNCHANGED <<disk, mergeVars, harnessVars>>

\* another run, the upstream repositories answering anything
Restart == NewRun(<<>>)

\* another run after one that wrote the file, the upstream repositories
\* answering what they answered to that run
Replay ==
    /\ outcome \in {"ok", "partial failure"}
    /\ NewRun([j \in 1..Len(log) |-> log[j].resp])

Next ==
    \/ Load
    \/ PreValidate
    \/ SkipEntry
    \/ RefreshEntry
    \/ BumpIfChanged
    \/ PostValidate
    \/ Persist

\* one refresh run
Spec == Init /\ [][Next]_vars

RunsNext ==
    \/ Load
    \/ PreValidate
    \/ SkipEntry
    \/ RefreshEntry
    \/ BumpIfChanged
    \/ PostValidate
    \/ Persist
    \/ Restart

\* refresh runs in a row, each in a new process
RunsSpec == Init /\ [][RunsNext]_vars

ReplayNext ==
    \/ Load
    \/ PreValidate
    \/ SkipEntry
    \/ RefreshEntry
    \/ BumpIfChanged
    \/ PostValidate
    \/ Persist
    \/ Replay

\* refresh runs in a row against the same upstream
ReplaySpec == Init /\ [][ReplayNext]_vars

----
\* Properties of the refresh run.

FailureKinds == {"fetch error", "invalid config"}

\* the up-front validation has run
PreRan == disk0.exists /\ pc \notin {"start", "loaded"}

PrePassed == PreRan /\ ~preErrors.raised /\ Len(preErrors.value) = 0

PreFailed == PreRan /\ (preErrors.raised \/ Len(preErrors.value) > 0)

PostPassed == ~postErrors.raised /\ Len(postErrors.value) = 0

PostFailed == postErrors.raised \/ (Len(postErrors.value) > 0 /\ postErrors # NotRun)

\* the loop is over and the version step has been taken
LoopFinished == PrePassed /\ pc # "loop"

\* the run wrote the registry file
Written == outcome \in {"ok", "partial failure"}

\* the entry at position j of the registry as it was read
ReadEntry(j) == disk0.doc.plugins.o[j]

\* the response was fetched, decoded and passed the manifest schema
GoodResponse(resp) ==
    /\ ~fetch_plugin_config(resp).raised
    /\ Len(validate_plugin_config(resp.json)) = 0

\* the in-memory registry as the loop left it: the version step touches
\* nothing but metadata, and the loop never touches metadata
LoopDoc == [marketplace EXCEPT !.metadata = disk0.doc.metadata]

ChangeDetected == json_dumps(LoopDoc) # original

\* C4: an entry whose fetch or manifest validation failed stays as it was
\* read, in memory and in the written file; every entry of the list is
\* handled, a github entry is always fetched, and what an entry becomes
\* depends on its own response only.
C4_FailuresAreIsolated ==
    PrePassed =>
        /\ \A j \in 1..Len(log) :
              /\ log[j].what \in FailureKinds =>
                    /\ marketplace.plugins.o[j] = ReadEntry(j)
                    /\ (Written => disk.doc.plugins.o[j] = ReadEntry(j))
              /\ IsGithub(ReadEntry(j)) =>
                    /\ log[j].what # "skipped"
                    /\ log[j].resp # NoResponse
                    /\ (GoodResponse(log[j].resp) <=> log[j].what = "merged")
              /\ log[j].what = "merged" =>
                    marketplace.plugins.o[j] =
                        Entry(merge_plugin(ReadEntry(j).o, log[j].resp.json.o))
        /\ Len(log) = idx
        /\ (LoopFinished => Len(log) = Len(disk0.doc.plugins.o))

C4_Witness ==
    /\ Written
    /\ Len(log) = 2
    /\ log[1].what \in FailureKinds
    /\ log[2].what = "merged"
    /\ disk.doc.plugins.o[1] = ReadEntry(1)
    /\ disk.doc.plugins.o[2] # ReadEntry(2)

\* C5 as stated: a run that got through the loop has changed metadata.version
\* if and only if it detected a change, and then to bump_version of the
\* version it read.
C5_VersionChangesIffChanged ==
    (pc = "done" /\ PrePassed) =>
        /\ (marketplace.metadata # disk0.doc.metadata) <=> ChangeDetected
        /\ ChangeDetected =>
              /\ ~bump_version(CurrentVersion(disk0.doc)).raised
              /\ CurrentVersion(marketplace) =
                    bump_version(CurrentVersion(disk0.doc)).value

\* C5 amended: when a change is detected and the version read (0.0.0 when
\* absent) is a valid semantic version, metadata.version becomes its
\* bump_version, once; when it is not valid, bump_version raises, the run ends
\* with a nonzero status and writes nothing; when no change is detected,
\* metadata is left alone.
C5_VersionBumpedOncePerChange ==
    LoopFinished =>
        LET next_ver == bump_version(CurrentVersion(disk0.doc))
        IN  IF ~ChangeDetected THEN marketplace.metadata = disk0.doc.metadata
            ELSE IF next_ver.raised
            THEN /\ marketplace.metadata = disk0.doc.metadata
                 /\ pc = "done" /\ exitCode = 1 /\ disk = disk0
            ELSE /\ marketplace.metadata # disk0.doc.metadata
                 /\ Has(marketplace.metadata.o, "version")
                 /\ Get(marketplace.metadata.o, "version") = next_ver.value
                 /\ next_ver.value # CurrentVersion(disk0.doc)
                 /\ \A k \in Keys(marketplace.metadata.o) \ {"version"} :
                       /\ Has(disk0.doc.metadata.o, k)
                       /\ Get(marketplace.metadata.o, k) = Get(disk0.doc.metadata.o, k)

C5_Witness ==
    /\ Written
    /\ Len(log) = 2
    /\ \A j \in 1..2 : log[j].what = "merged" /\ disk.doc.plugins.o[j] # ReadEntry(j)
    /\ CurrentVersion(disk0.doc) = <<"0", ".", "0", ".", "1">>
    /\ CurrentVersion(disk.doc) = <<"0", ".", "0", ".", "2">>

\* every manifest merged in this run carried values its entry already held,
\* and the merged entry has the fields and values of the entry it replaces
MergesCarrySameData ==
    \A j \in 1..Len(log) :
        /\ log[j].what \in {"skipped", "merged"}
        /\ log[j].what = "merged" =>
              /\ AsMap(log[j].resp.json.o) \subseteq AsMap(ReadEntry(j).o)
              /\ AsMap(marketplace.plugins.o[j].o) = AsMap(ReadEntry(j).o)

\* C6: a run whose manifests carry the field values the entries already hold
\* leaves metadata.version unchanged, whatever the key order on disk.
C6_NoOpKeepsVersion ==
    (LoopFinished /\ MergesCarrySameData) => marketplace.metadata = disk0.doc.metadata

\* C7: when the registry file is missing or fails the up-front validation,
\* the run has ended with a nonzero status, no entry was handled or fetched,
\* and the file is as it was.
C7_FatalBeforeAnyFetch ==
    ((~disk0.exists /\ pc # "start") \/ PreFailed) =>
        /\ pc = "done"
        /\ exitCode = 1
        /\ log = <<>>
        /\ ~had_errors
        /\ disk = disk0

C7_Witness ==
    /\ PreFailed
    /\ ~preErrors.raised
    /\ disk0.doc.plugins.kind = "list"
    /\ \E j \in 1..Len(disk0.doc.plugins.o) :
          disk0.doc.plugins.o[j].kind = "obj" /\ IsGithub(disk0.doc.plugins.o[j])

C9_ExitStatusReportsEntryFailures ==
    (PrePassed /\ PostPassed) =>
        /\ pc \in {"write", "done"}
        /\ pc = "done" =>
              /\ Written
              /\ disk = [exists |-> TRUE, doc |-> marketplace, fmt |-> "indent2"]
              /\ exitCode \in {0, 1}
              /\ (exitCode # 0) <=> (\E j \in 1..Len(log) : log[j].what \in FailureKinds)

C9_Witness ==
    /\ pc = "done"
    /\ PrePassed /\ PostPassed
    /\ Len(log) = 2
    /\ log[1].what \in FailureKinds
    /\ log[2].what = "merged"
    /\ exitCode = 1
    /\ disk.doc = marketplace

\* the plugins member is not a list, or holds an element that is not an object
Malformed(doc) ==
    \/ doc.plugins.kind \notin {"list", "none"}
    \/ \E j \in 1..Len(doc.plugins.o) : doc.plugins.o[j].kind # "obj"

\* C10: validate_marketplace does not raise on a malformed plugins member: it
\* returns a non-empty list of errors, without duplicate-name errors when
\* plugins is not a list.
C10_ValidateNeverRaises ==
    (PreRan /\ Malformed(disk0.doc)) =>
        /\ ~preErrors.raised
        /\ Len(preErrors.value) > 0
        /\ disk0.doc.plugins.kind # "list" =>
              \A n \in 1..Len(preErrors.value) :
                  preErrors.value[n].msg # "Duplicate plugin name"


(***************************************************************************)
(* Validation harness: validate_marketplace applied to one registry        *)
(* document drawn from lists of small entries.                             *)
(***************************************************************************)
MaxItems == 3

ValidateEntries ==
    {Entry(<<Member("name", Str(<<"a">>)), Member("source", Str(<<"./a">>))>>),
     Entry(<<Member("name", Str(<<"a">>)), Member("source", Str(<<"./other">>))>>),
     Entry(<<Member("name", Str(<<"b">>)), Member("source", Str(<<"./b">>))>>),
     Entry(<<Member("source", Str(<<"./nameless">>))>>),
     Entry(<<Member("name", Opaque("null", <<>>)), Member("source", Str(<<"./null">>))>>)}

ValidateInputs ==
    {Doc("ok", ListOf(items), NoneVal) :
        items \in UNION {[1..n -> ValidateEntries] : n \in 0..MaxItems}}

HarnessIdle ==
    /\ hashSeed = 0
    /\ mEntry = <<>>
    /\ mSource = <<>>
    /\ mResult = <<>>
    /\ mDone = FALSE
    /\ disk = IdleDisk
    /\ marketplace = <<>>
    /\ original = <<>>
    /\ idx = 0
    /\ had_errors = FALSE
    /\ exitCode = -1
    /\ preErrors = <<>>
    /\ postErrors = <<>>
    /\ log = <<>>
    /\ disk0 = IdleDisk
    /\ outcome = "idle"
    /\ runs = 0
    /\ upstream = <<>>
    /\ hOutput = <<>>
    /\ hDone = FALSE

ValidateInit ==
    /\ HarnessIdle
    /\ pc = "validate_marketplace"
    /\ hInput \in ValidateInputs

ValidateCall ==
    /\ pc = "validate_marketplace"
    /\ ~hDone
    /\ hOutput' = validate_marketplace(hInput)
    /\ hDone' = TRUE
    /\ UNCHANGED <<hashSeed, hInput, refreshVars, mergeVars>>

ValidateNext == ValidateCall

ValidateSpec == ValidateInit /\ [][ValidateNext]_vars

Validated == pc = "validate_marketplace" /\ hDone /\ ~hOutput.raised

\* the name of the j-th entry of the validated list, NoneVal when it has none
NameAt(j) ==
    LET plugin == hInput.plugins.o[j]
    IN  IF Has(plugin.o, "name") /\ Get(plugin.o, "name").kind # "null"
        THEN Get(plugin.o, "name") ELSE NoneVal

RepeatsEarlierName(j) ==
    /\ NameAt(j) # NoneVal
    /\ \E i \in 1..(j - 1) : NameAt(i) = NameAt(j)

DuplicateErrors ==
    SelectSeq(hOutput.value, LAMBDA e : e.msg = "Duplicate plugin name")

\* C11: validate_marketplace reports exactly one duplicate-name error for every
\* entry whose name equals the name of an earlier entry and none for a first
\* occurrence or a nameless entry; the error carries the entry's list index
\* (counted from 0) and the repeated name.
C11_OneErrorPerRepeatedName ==
    Validated =>
        /\ \A j \in 1..Len(hInput.plugins.o) :
              Cardinality({n \in DOMAIN DuplicateErrors : DuplicateErrors[n].idx = j - 1})
                  = IF RepeatsEarlierName(j) THEN 1 ELSE 0
        /\ \A n \in DOMAIN DuplicateErrors :
              /\ DuplicateErrors[n].idx \in 0..(Len(hInput.plugins.o) - 1)
              /\ DuplicateErrors[n].field = "name"
              /\ DuplicateErrors[n].arg = NameAt(DuplicateErrors[n].idx + 1).s

\* names a, b, a: the third entry, and only it, is reported, with index 2
C11_Witness ==
    /\ Validated
    /\ Len(hInput.plugins.o) = 3
    /\ NameAt(1) = Str(<<"a">>) /\ NameAt(2) = Str(<<"b">>) /\ NameAt(3) = Str(<<"a">>)
    /\ Len(DuplicateErrors) = 1
    /\ DuplicateErrors[1].idx = 2
    /\ DuplicateErrors[1].arg = <<"a">>


(***************************************************************************)
(* Version harness: bump_version applied to one version string, written    *)
(* from its parts.                                                         *)
(***************************************************************************)
MaxDigits == 2

\* the digit strings of up to MaxDigits digits over 0, 1, 9 (leading zeros included)
Numbers == UNION {[1..n -> {"0", "1", "9"}] : n \in 1..MaxDigits}

SmallNumbers == {<<"0">>, <<"1">>, <<"0", "1">>}

Cores ==
    {<<major, minor, patch>> : major \in SmallNumbers, minor \in SmallNumbers,
                               patch \in Numbers}
    \cup {<<>>, <<<<"1">>>>, <<<<"1">>, <<"2">>>>, <<<<"1">>, <<"2">>, <<"3">>, <<"4">>>>}

Absent == [present |-> FALSE, text |-> <<>>]

Present(text) == [present |-> TRUE, text |-> text]

Prereleases ==
    {Absent, Present(<<"beta">>), Present(<<"rc", ".", "1">>), Present(<<"0">>),
     Present(<<"0", "1">>), Present(<<>>)}

Builds == {Absent, Present(<<"build", ".", "4", "2">>), Present(<<"sha", ".", "abc">>)}

Prefixes == {<<>>, <<"v">>}

VersionParts ==
    [prefix : Prefixes, core : Cores, prerelease : Prereleases, build : Builds]

RECURSIVE JoinDots(_)
JoinDots(parts) ==
    IF parts = <<>> THEN <<>>
    ELSE IF Len(parts) = 1 THEN parts[1]
    ELSE parts[1] \o <<".">> \o JoinDots(Tail(parts))

\* the version string a registry holds for these parts
VersionText(p) ==
    p.prefix \o JoinDots(p.core)
        \o (IF p.prerelease.present THEN <<"-">> \o p.prerelease.text ELSE <<>>)
        \o (IF p.build.present THEN <<"+">> \o p.build.text ELSE <<>>)

BumpInit ==
    /\ HarnessIdle
    /\ pc = "bump_version"
    /\ hInput \in VersionParts

BumpCall ==
    /\ pc = "bump_version"
    /\ ~hDone
    /\ hOutput' = bump_version(VersionText(hInput))
    /\ hDone' = TRUE
    /\ UNCHANGED <<hashSeed, hInput, refreshVars, mergeVars>>

BumpNext == BumpCall

BumpSpec == BumpInit /\ [][BumpNext]_vars

Bumped == pc = "bump_version" /\ hDone

NoLeadingZero(n) == Len(n) = 1 \/ n[1] # "0"

\* the parts spell a valid semantic version
ValidParts(p) ==
    /\ p.prefix = <<>>
    /\ Len(p.core) = 3
    /\ \A i \in 1..3 : NoLeadingZero(p.core[i])
    /\ p.prerelease \in {Absent, Present(<<"beta">>), Present(<<"rc", ".", "1">>),
                         Present(<<"0">>)}

\* the decimal numeral after n, digit by digit
RECURSIVE NextNumeral(_)
NextNumeral(n) ==
    IF n = <<>> THEN <<"1">>
    ELSE LET last == n[Len(n)]
             front == SubSeq(n, 1, Len(n) - 1)
         IN  IF last = "9" THEN NextNumeral(front) \o <<"0">>
             ELSE front \o <<Digits[DigitVal(last) + 2]>>

\* C12: for a valid semantic version, bump_version returns major.minor.patch
\* with every suffix removed and nothing incremented when a pre-release is
\* present, and major.minor.(patch + 1) otherwise; build metadata never shows
\* in the result; for an invalid version the call raises.
C12_BumpVersion ==
    Bumped =>
        IF ValidParts(hInput)
        THEN /\ ~hOutput.raised
             /\ hOutput.value =
                   IF hInput.prerelease.present
                   THEN JoinDots(hInput.core)
                   ELSE JoinDots(<<hInput.core[1], hInput.core[2],
                                   NextNumeral(hInput.core[3])>>)
             /\ \A i \in 1..Len(hOutput.value) : hOutput.value[i] \notin {"+", "-"}
        ELSE hOutput.raised

\* 0.1.9+build.42 becomes 0.1.10
C12_Witness ==
    /\ Bumped
    /\ VersionText(hInput) = <<"0", ".", "1", ".", "9", "+", "build", ".", "4", "2">>
    /\ ~hOutput.raised
    /\ hOutput.value = <<"0", ".", "1", ".", "1", "0">>


(***************************************************************************)
(* Key order and author sanitisation of merge_plugin (MergeSpec).          *)
(***************************************************************************)
ResultKeys == [i \in 1..Len(mResult) |-> mResult[i].k]

ReverseMembers(d) == [i \in 1..Len(d) |-> d[Len(d) + 1 - i]]

\* d with its members reversed, and the members of its nested objects too
DeepReverse(d) ==
    [i \in 1..Len(d) |->
        LET m == d[Len(d) + 1 - i]
        IN  IF m.v.kind = "obj" THEN Member(m.k, Obj(ReverseMembers(m.v.o))) ELSE m]

EntryBytes(d) == DumpItem(Entry(d), Indent2)

KeysInCanonicalOrder ==
    \A i, j \in 1..Len(ResultKeys) :
        i < j =>
            LET ri == OrderRank[ResultKeys[i]]
                rj == OrderRank[ResultKeys[j]]
            IN  \/ ri < rj
                \/ /\ ri = rj
                   /\ ri = Len(_KEY_ORDER) + 1
                   /\ StrLess(ResultKeys[i], ResultKeys[j])

HasNestedOrder ==
    \E i \in 1..Len(mResult) : mResult[i].v.kind = "obj" /\ Len(mResult[i].v.o) >= 2

\* C13 as stated: the keys of the result are in canonical order, and a merge
\* of the same E and M given in any other key order, at any depth, serializes
\* to the same bytes.
C13_SameBytesInAnyKeyOrder ==
    mDone =>
        /\ KeysInCanonicalOrder
        /\ EntryBytes(merge_plugin(DeepReverse(mEntry), DeepReverse(mSource)))
              = EntryBytes(mResult)

\* C13: the keys of merge_plugin(E, M) are in the canonical sequence, other
\* keys after it in lexicographic order; E and M with their top-level keys in
\* another order merge to the same bytes, while nested objects keep the member
\* order of the input, so reordering inside them changes the bytes.
C13_CanonicalTopLevelOrder ==
    mDone =>
        /\ KeysInCanonicalOrder
        /\ EntryBytes(merge_plugin(ReverseMembers(mEntry), ReverseMembers(mSource)))
              = EntryBytes(mResult)
        /\ HasNestedOrder =>
              EntryBytes(merge_plugin(DeepReverse(mEntry), DeepReverse(mSource)))
                  # EntryBytes(mResult)

\* E given as source, category, name and M carrying settings: the result is
\* name, source, category, settings
C13_Witness ==
    /\ mDone
    /\ hashSeed = 1
    /\ mEntry = MkDict({"name", "category", "source"}, 1, TRUE)
    /\ Has(mSource, "settings")
    /\ ResultKeys = <<"name", "source", "category", "settings">>
    /\ HasNestedOrder

\* the members of M.author that the schema declares, in M's order
DeclaredOfSourceAuthor ==
    IF Has(mSource, "author") /\ Get(mSource, "author").kind = "obj"
    THEN SelectSeq(Get(mSource, "author").o, LAMBDA m : m.k \in _documented_author_fields)
    ELSE <<>>

\* C14: the author of merge_plugin(E, M) is the object of exactly the declared
\* sub-fields of M.author; there is no author in the result when M has none,
\* when M.author is not an object or when none of its sub-fields is declared,
\* whatever E.author is.
C14_AuthorFromSourceSanitised ==
    mDone =>
        IF DeclaredOfSourceAuthor # <<>>
        THEN Has(mResult, "author")
                /\ Get(mResult, "author") = Obj(DeclaredOfSourceAuthor)
        ELSE ~Has(mResult, "author")

\* M.author is name, bogus, url and E has an author of its own: the result's
\* author is name, url
C14_Witness ==
    /\ mDone
    /\ Has(mEntry, "author")
    /\ Has(mSource, "author")
    /\ Len(Get(mSource, "author").o) = 3
    /\ Get(mResult, "author") =
          Obj(<<Member("name", <<"dev">>), Member("url", <<"https://dev">>)>>)
    /\ Get(mResult, "author") # Get(mEntry, "author")


(***************************************************************************)
(* The registry file across a run (Spec).                                  *)
(***************************************************************************)
\* the text of the registry file: _serialize writes indent 2 and a final
\* newline, a file kept by json.dumps(doc) has neither
FileBytes(f) ==
    IF f.fmt = "indent2" THEN _serialize(f.doc) ELSE DumpDoc(f.doc, <<>>)

\* C15 as stated: a run that detects no change leaves the bytes of the
\* registry file as they were.
C15_NoChangeLeavesFileBytes ==
    (Written /\ ~ChangeDetected) => FileBytes(disk) = FileBytes(disk0)

\* C15: a run that detects no change and reaches the write stores the document
\* it read, version included, in the canonical serialization; the bytes of the
\* file are the bytes before exactly when the file was already in that
\* serialization.
C15_NoChangeRewritesSameDocument ==
    (Written /\ ~ChangeDetected) =>
        /\ disk.doc = disk0.doc
        /\ FileBytes(disk) = _serialize(disk0.doc)
        /\ (FileBytes(disk) = FileBytes(disk0)) <=> (disk0.fmt = "indent2")

\* a compact file, an entry merged with the data it already held: the same
\* document, other bytes
C15_Witness ==
    /\ Written
    /\ ~ChangeDetected
    /\ disk0.fmt = "compact"
    /\ \E j \in 1..Len(log) : log[j].what = "merged"
    /\ disk.doc = disk0.doc
    /\ FileBytes(disk) # FileBytes(disk0)

\* the records of the log that stand for a call of the fetch port for the
\* entry at list position j
FetchesOf(j) == {n \in 1..Len(log) : log[n].i = j - 1 /\ log[n].resp # NoResponse}

\* C16: the loop takes the entries one at a time in list order; an entry whose
\* source is a string, or a structured source of another kind than github,
\* is not fetched, records no error and stays as read; a github entry is
\* fetched at most once in a run.
C16_SkipsAndSingleFetch ==
    PrePassed =>
        /\ Len(log) <= Len(disk0.doc.plugins.o)
        /\ pc = "loop" => Len(log) = idx
        /\ \A n \in 1..Len(log) : log[n].i = n - 1
        /\ \A j \in 1..Len(log) :
              IF IsGithub(ReadEntry(j))
              THEN Cardinality(FetchesOf(j)) <= 1
              ELSE /\ FetchesOf(j) = {}
                   /\ log[j].what = "skipped"
                   /\ marketplace.plugins.o[j] = ReadEntry(j)
        /\ had_errors =>
              \E j \in 1..Len(log) : IsGithub(ReadEntry(j)) /\ log[j].what \in FailureKinds

\* an npm entry then a github entry: the first is skipped and kept, the
\* second is fetched once and merged
C16_Witness ==
    /\ pc = "done"
    /\ Written
    /\ ~had_errors
    /\ Len(log) = 2
    /\ ReadEntry(1) = EntryNpm
    /\ log[1].what = "skipped"
    /\ marketplace.plugins.o[1] = EntryNpm
    /\ log[2].what = "merged"
    /\ Cardinality(FetchesOf(2)) = 1


(***************************************************************************)
(* Runs in a row (Spec, ReplaySpec).                                       *)
(***************************************************************************)
\* metadata.version of the registry file, 0.0.0 when the file has none
PersistedVersion(f) ==
    IF f.exists /\ f.doc.metadata.kind = "obj" /\ Has(f.doc.metadata.o, "version")
    THEN Get(f.doc.metadata.o, "version")
    ELSE <<"0", ".", "0", ".", "0">>

SameCore(a, b) == a.major = b.major /\ a.minor = b.minor /\ a.patch = b.patch

Plain(v) == v.prerelease = NoSuffix /\ v.build = NoSuffix

\* semver precedence for a plain b: build metadata does not count, a
\* pre-release comes before its release
Precedes(a, b) ==
    \/ a.major < b.major
    \/ a.major = b.major /\ a.minor < b.minor
    \/ a.major = b.major /\ a.minor = b.minor /\ a.patch < b.patch
    \/ SameCore(a, b) /\ a.prerelease # NoSuffix /\ b.prerelease = NoSuffix

VersionMovesUp(old, new) ==
    LET a == VersionParse(old)
        b == VersionParse(new)
    IN  /\ a.valid /\ b.valid
        /\ Plain(b)
        /\ Precedes(a, b)
        /\ IF a.prerelease # NoSuffix
           THEN SameCore(a, b)
           ELSE a.major = b.major /\ a.minor = b.minor /\ b.patch = a.patch + 1

\* C17: over runs in a row, no step changes the persisted metadata.version
\* except to a version that follows it in semver precedence: the release of
\* a pre-release, the next patch of a release.
C17_VersionNeverDecreases ==
    [][\/ PersistedVersion(disk') = PersistedVersion(disk)
       \/ VersionMovesUp(PersistedVersion(disk), PersistedVersion(disk'))]_vars

\* 1.0.0-rc.1 became 1.0.0 in the first run and 1.0.1 in the second
C17_Witness ==
    /\ runs = 2
    /\ pc = "done"
    /\ outcome \in {"ok", "partial failure"}
    /\ PersistedVersion(disk0) = <<"1", ".", "0", ".", "0">>
    /\ PersistedVersion(disk) = <<"1", ".", "0", ".", "1">>

\* C18: a run that follows a run that wrote the registry, with the fetch port
\* answering as before, detects no change: every entry, merged again with
\* the same manifest, is what it was with its keys in the same order,
\* metadata.version is not bumped, and the file is written with the bytes
\* the first run wrote.
C18_SecondRunIsNoOp ==
    runs > 1 =>
        /\ LoopFinished => (~ChangeDetected /\ marketplace = disk0.doc)
        /\ pc = "done" =>
              /\ outcome \in {"ok", "partial failure"}
              /\ disk.doc = disk0.doc
              /\ FileBytes(disk) = FileBytes(disk0)

\* the first run merged a new manifest into an entry; the second run merged
\* it again and wrote the same file
C18_Witness ==
    /\ runs = 2
    /\ pc = "done"
    /\ outcome = "ok"
    /\ \E j \in 1..Len(log) :
          /\ log[j].what = "merged"
          /\ log[j].resp.json = ManifestNew
          /\ Has(ReadEntry(j).o, "description")
          /\ marketplace.plugins.o[j] = ReadEntry(j)
    /\ FileBytes(disk) = FileBytes(disk0)

====
